---------------------------- MODULE Spec2Model ----------------------------
(***************************************************************************)
(* git-status-tracker (src/src/main.rs): a command line tool that keeps a  *)
(* per-directory record (path, branch, counts per git status code) in a    *)
(* sled database.  Each invocation opens the database (Database::new, a    *)
(* bounded retry loop), runs one of put / get / list, and exits.           *)
(*                                                                         *)
(* Strings are sequences of one-character strings.  Serialized data is a   *)
(* sequence of natural numbers: a bincode u64 is one word, a string is its *)
(* length word followed by its bytes.                                      *)
(***************************************************************************)
EXTENDS Integers, Sequences, FiniteSets, TLC

VARIABLES
    disk,         \* the sled tree: serialized key -> serialized Status
    holder,       \* the process holding sled's exclusive file lock, or None
    unavailable,  \* the database directory cannot be opened at all
    pc,           \* per process: "off", "new" (in Database::new), "cmd", "exit", "openerr"
    attempts,     \* per process: the local `attempts` of Database::new
    opens,        \* per process: calls of sled::open made by this Database::new
    last,         \* the most recent command that ran to its end, with its outcome
    written,      \* history: canonical path -> what successful puts stored there
    unacked,      \* history: paths whose most recent put failed in flush
    runs          \* history: the number of invocations started

vars == <<disk, holder, unavailable, pc, attempts, opens, last, written, unacked,
          runs>>

None == "none"
Procs == {"p1", "p2"}

\* ------------------------------------------------------------------ bounds

\* The invocations of one behaviour.
MaxRuns == 3

\* ---------------------------------------------------------------- strings

\* The characters of the model's inputs and their UTF-8 bytes.
Byte(c) ==
    CASE c = " " -> 32
      [] c = "+" -> 43
      [] c = "/" -> 47
      [] c = "0" -> 48
      [] c = "1" -> 49
      [] c = "2" -> 50
      [] c = "3" -> 51
      [] c = "4" -> 52
      [] c = "5" -> 53
      [] c = "6" -> 54
      [] c = "7" -> 55
      [] c = "8" -> 56
      [] c = "9" -> 57
      [] c = "?" -> 63
      [] c = "M" -> 77
      [] c = "X" -> 88
      [] c = "a" -> 97
      [] c = "b" -> 98
      [] c = "m" -> 109
      [] c = "n" -> 110
      [] c = "|" -> 124

Chars == {" ", "+", "/", "0", "1", "2", "3", "4", "5", "6", "7", "8", "9",
          "?", "M", "X", "a", "b", "m", "n", "|"}

Digits == <<"0", "1", "2", "3", "4", "5", "6", "7", "8", "9">>

IsDigit(c) == \E i \in 1..10 : Digits[i] = c

DigitVal(c) == (CHOOSE i \in 1..10 : Digits[i] = c) - 1

\* char::is_whitespace, on the model's characters.
IsWhitespace(c) == c = " "

RECURSIVE TrimStart(_)
TrimStart(s) ==
    IF s = <<>> \/ ~IsWhitespace(s[1]) THEN s ELSE TrimStart(Tail(s))

RECURSIVE TrimEnd(_)
TrimEnd(s) ==
    IF s = <<>> \/ ~IsWhitespace(s[Len(s)]) THEN s
    ELSE TrimEnd(SubSeq(s, 1, Len(s) - 1))

\* str::trim
Trim(s) == TrimEnd(TrimStart(s))

\* str::split(c): the pieces between the separators, always at least one.
RECURSIVE SplitFrom(_, _, _)
SplitFrom(s, c, cur) ==
    IF s = <<>> THEN <<cur>>
    ELSE IF s[1] = c THEN <<cur>> \o SplitFrom(Tail(s), c, <<>>)
    ELSE SplitFrom(Tail(s), c, Append(cur, s[1]))

Split(s, c) == SplitFrom(s, c, <<>>)

\* The value of a digit string.  The model's counts have at most three
\* digits, far below 2^64.
RECURSIVE DigitsVal(_)
DigitsVal(s) ==
    IF s = <<>> THEN 0
    ELSE 10 * DigitsVal(SubSeq(s, 1, Len(s) - 1)) + DigitVal(s[Len(s)])

\* str::parse::<u64>: an optional "+", then one or more decimal digits.
ParseU64(s) ==
    LET body == IF s # <<>> /\ s[1] = "+" THEN Tail(s) ELSE s
    IN  IF body # <<>> /\ \A i \in 1..Len(body) : IsDigit(body[i])
        THEN [ok |-> TRUE, val |-> DigitsVal(body)]
        ELSE [ok |-> FALSE, val |-> 0]

\* Display of a u64: its decimal digits.
RECURSIVE FormatU64(_)
FormatU64(n) ==
    IF n < 10 THEN <<Digits[n + 1]>>
    ELSE FormatU64(n \div 10) \o <<Digits[(n % 10) + 1]>>

\* Ord for str: byte-wise lexicographic order.
RECURSIVE StrLess(_, _)
StrLess(a, b) ==
    IF b = <<>> THEN FALSE
    ELSE IF a = <<>> THEN TRUE
    ELSE IF Byte(a[1]) # Byte(b[1]) THEN Byte(a[1]) < Byte(b[1])
    ELSE StrLess(Tail(a), Tail(b))

\* The elements of a finite set of strings in ascending order.
RECURSIVE SortStrs(_)
SortStrs(S) ==
    IF S = {} THEN <<>>
    ELSE LET m == CHOOSE x \in S : \A y \in S \ {x} : StrLess(x, y)
         IN  <<m>> \o SortStrs(S \ {m})

\* All orders in which the elements of a finite set can be visited.
RECURSIVE Orders(_)
Orders(S) ==
    IF S = {} THEN {<<>>}
    ELSE UNION {{<<x>> \o o : o \in Orders(S \ {x})} : x \in S}


\* ------------------------------------------------------------------ Status

\* `parts` of one segment of the raw status (line 64).
Parts(s) == Split(s, " ")

\* The non-empty segments of the raw status (lines 61-62).
Segments(git_status) ==
    SelectSeq(Split(git_status, "|"), LAMBDA s : s # <<>>)

\* The closure of line 65 panics on this segment: parts[1] is out of
\* bounds, or parts[0] is no u64 and unwrap() panics.
SegmentPanics(s) == Len(Parts(s)) < 2 \/ ~ParseU64(Parts(s)[1]).ok

\* A map in which the first segment of a code gives its count.
CollectMapFirst(segs) ==
    LET codes   == {Parts(segs[i])[2] : i \in 1..Len(segs)}
        firstOf(c) == CHOOSE i \in 1..Len(segs) :
                        /\ Parts(segs[i])[2] = c
                        /\ \A j \in 1..(i - 1) : Parts(segs[j])[2] # c
    IN  [c \in codes |-> ParseU64(Parts(segs[firstOf(c)])[1]).val]

\* The map collected from the segments (lines 63-67): one entry (parts[1],
\* parts[0]) per segment, a later entry replacing an earlier one of the
\* same code.
CollectMap(segs) ==
    LET codes   == {Parts(segs[i])[2] : i \in 1..Len(segs)}
        lastOf(c) == CHOOSE i \in 1..Len(segs) :
                        /\ Parts(segs[i])[2] = c
                        /\ \A j \in (i + 1)..Len(segs) : Parts(segs[j])[2] # c
    IN  [c \in codes |-> ParseU64(Parts(segs[lastOf(c)])[1]).val]

\* The empty HashMap.
EmptyMap == [c \in {} |-> 0]

\* Status::new.  It panics when a segment does, and otherwise builds the
\* record from its arguments.
StatusNew(path, branch, git_status) ==
    LET segs == Segments(git_status)
    IN  IF \E i \in 1..Len(segs) : SegmentPanics(segs[i])
        THEN [panic |-> TRUE,
              status |-> [path |-> path, branch |-> branch, git_status |-> EmptyMap]]
        ELSE [panic |-> FALSE,
              status |-> [path |-> path, branch |-> branch,
                          git_status |-> CollectMap(segs)]]

\* Status::default(), the zero-value record.
StatusDefault == [path |-> <<>>, branch |-> <<>>, git_status |-> EmptyMap]

\* ----------------------------------------------------------------- bincode

\* bincode::serialize of a string: the length word, then the bytes.
SerializeStr(s) == <<Len(s)>> \o [i \in 1..Len(s) |-> Byte(s[i])]

\* The entries of a HashMap in the order its iterator yields them.
RECURSIVE SerializeEntries(_, _)
SerializeEntries(m, order) ==
    IF order = <<>> THEN <<>>
    ELSE SerializeStr(order[1]) \o <<m[order[1]]>>
           \o SerializeEntries(m, Tail(order))

\* bincode::serialize of a Status: path, branch, then the map as its entry
\* count and its entries.  `order` is the HashMap's iteration order, which
\* the hasher's random seed decides.
SerializeStatus(status, order) ==
    SerializeStr(status.path) \o SerializeStr(status.branch)
      \o <<Cardinality(DOMAIN status.git_status)>>
      \o SerializeEntries(status.git_status, order)

IsByte(n) == \E c \in Chars : Byte(c) = n

FromByte(n) == CHOOSE c \in Chars : Byte(c) = n

\* Reads one u64 word.
ReadU64(b) ==
    IF b = <<>> THEN [ok |-> FALSE, val |-> 0, rest |-> <<>>]
    ELSE [ok |-> TRUE, val |-> b[1], rest |-> Tail(b)]

\* Reads one string: fails at the end of the input, on a length beyond the
\* input, and on bytes that are no text.
ReadStr(b) ==
    LET n == ReadU64(b)
    IN  IF ~n.ok \/ Len(n.rest) < n.val
           \/ \E i \in 1..n.val : ~IsByte(n.rest[i])
        THEN [ok |-> FALSE, val |-> <<>>, rest |-> <<>>]
        ELSE [ok |-> TRUE,
              val |-> [i \in 1..n.val |-> FromByte(n.rest[i])],
              rest |-> SubSeq(n.rest, n.val + 1, Len(n.rest))]

\* Reads n map entries after `acc`; an entry read later replaces an earlier
\* one of the same key.
RECURSIVE ReadEntries(_, _, _)
ReadEntries(b, n, acc) ==
    IF n = 0 THEN [ok |-> TRUE, val |-> acc, rest |-> b]
    ELSE LET k == ReadStr(b)
             v == ReadU64(k.rest)
         IN  IF ~k.ok \/ ~v.ok
             THEN [ok |-> FALSE, val |-> EmptyMap, rest |-> <<>>]
             ELSE ReadEntries(v.rest, n - 1,
                    [c \in DOMAIN acc \cup {k.val} |->
                        IF c = k.val THEN v.val ELSE acc[c]])

\* bincode::deserialize::<Status>: Err on input that ends early.
DeserializeStatus(b) ==
    LET path   == ReadStr(b)
        branch == ReadStr(path.rest)
        n      == ReadU64(branch.rest)
        m      == ReadEntries(n.rest, n.val, EmptyMap)
    IN  IF path.ok /\ branch.ok /\ n.ok /\ m.ok
        THEN [ok |-> TRUE,
              status |-> [path |-> path.val, branch |-> branch.val,
                          git_status |-> m.val]]
        ELSE [ok |-> FALSE, status |-> StatusDefault]

\* ---------------------------------------------------------------- Database

\* The retry budget of Database::new (`attempts > 10`).
MaxAttempts == 10

\* An insert that leaves nothing but the inserted key.
InsertAlone(db, k, v) == [x \in {k} |-> v]

\* sled's insert: the value of the key is replaced, or the key is added.
Insert(db, k, v) == [x \in DOMAIN db \cup {k} |-> IF x = k THEN v ELSE db[x]]

\* UpdateKey with the branch taken for the path.
UpdateKeyByBranch(status) == SerializeStr(status.branch)

\* A key made from the path with a separator appended.
UpdateKeyWithSeparator(status) == SerializeStr(status.path \o <<"/">>)

\* The key of a record (line 95).
UpdateKey(status) == SerializeStr(status.path)

\* Update that leaves the record of a key that is already present.
UpdateKeepFirst(db, status, order, io) ==
    LET k == SerializeStr(status.path)
        inserted == IF k \in DOMAIN db THEN db
                    ELSE [x \in DOMAIN db \cup {k} |->
                            IF x = k THEN SerializeStatus(status, order) ELSE db[x]]
    IN  IF io = "ok" THEN [result |-> "ok", db |-> inserted]
        ELSE [result |-> "err",
              db |-> IF io = "flush_kept" THEN inserted ELSE db]

\* Database::update: insert, then flush, each `?` returning early.  `io` is
\* what the file system does: "ok", or the flush fails and the inserted
\* record is lost ("flush_lost") or has reached the log all the same
\* ("flush_kept"); which of the two, sled does not say.
Update(db, status, order, io) ==
    LET inserted == Insert(db, UpdateKey(status), SerializeStatus(status, order))
    IN  IF io = "ok" THEN [result |-> "ok", db |-> inserted]
        ELSE [result |-> "err",
              db |-> IF io = "flush_kept" THEN inserted ELSE db]

IoOutcomes == {"ok", "flush_lost", "flush_kept"}

\* Database::get: the bytes under the serialized path, or no bytes
\* (unwrap_or_default), deserialized.
DbGet(db, path) ==
    LET k == SerializeStr(path)
    IN  DeserializeStatus(IF k \in DOMAIN db THEN db[k] ELSE <<>>)

\* ------------------------------------------------------------------- main

\* The path a put stores under (lines 129-134): trimmed, then without one
\* trailing '/'.
PutPath(path) ==
    LET t == Trim(path)
    IN  IF t # <<>> /\ t[Len(t)] = "/" THEN SubSeq(t, 1, Len(t) - 1) ELSE t

\* The second line of get's output (lines 141-149): the entries in
\* ascending order of code, "| " before every entry but the first.
RECURSIVE StatusLineFrom(_, _, _)
StatusLineFrom(m, codes, i) ==
    IF i > Len(codes) THEN <<>>
    ELSE (IF i > 1 THEN <<"|", " ">> ELSE <<>>)
           \o FormatU64(m[codes[i]]) \o <<" ">> \o codes[i] \o <<" ">>
           \o StatusLineFrom(m, codes, i + 1)

\* The entries in descending order of code.
StatusLineDescending(m) ==
    LET s == SortStrs(DOMAIN m)
    IN  StatusLineFrom(m, [i \in 1..Len(s) |-> s[Len(s) + 1 - i]], 1)

StatusLine(m) == StatusLineFrom(m, SortStrs(DOMAIN m), 1)

\* Commands::Get: the outcome and the two lines printed.
GetCommand(db, path) ==
    LET r == DbGet(db, path)
    IN  IF r.ok
        THEN [result |-> "ok",
              lines |-> <<Trim(r.status.branch), StatusLine(r.status.git_status)>>]
        ELSE [result |-> "err", lines |-> <<>>]

\* sled iterates in the byte-wise lexicographic order of the keys.
RECURSIVE KeyLess(_, _)
KeyLess(a, b) ==
    IF b = <<>> THEN FALSE
    ELSE IF a = <<>> THEN TRUE
    ELSE IF a[1] # b[1] THEN a[1] < b[1]
    ELSE KeyLess(Tail(a), Tail(b))

RECURSIVE SortKeys(_)
SortKeys(S) ==
    IF S = {} THEN <<>>
    ELSE LET m == CHOOSE x \in S : \A y \in S \ {x} : KeyLess(x, y)
         IN  <<m>> \o SortKeys(S \ {m})

\* The loop of Commands::List from the i-th key on: one line per entry, and
\* an early return at the first value that does not deserialize.
RECURSIVE ListFrom(_, _, _)
ListFrom(db, keys, i) ==
    IF i > Len(keys) THEN [result |-> "ok", records |-> <<>>]
    ELSE LET d    == DeserializeStatus(db[keys[i]])
             rest == ListFrom(db, keys, i + 1)
         IN  IF ~d.ok THEN [result |-> "err", records |-> <<>>]
             ELSE [result |-> rest.result, records |-> <<d.status>> \o rest.records]

\* Commands::List.  A line is kept as the record it prints: the Debug
\* rendering of a HashMap lists the entries in an unspecified order.
ListCommand(db) == ListFrom(db, SortKeys(DOMAIN db), 1)

\* ------------------------------------------------------------------ inputs

PathArgs == {<<"a">>, <<"a", "/">>, <<"b">>}

BranchArgs == {<<"m">>, <<" ", "n">>}

\* Raw statuses Status::new accepts, and raw statuses it does not.
GoodStatusArgs == {
    <<"1", " ", "M">>,
    <<"2", " ", "M", "|", "1", " ", "?">> }

BadStatusArgs == {
    <<"X", " ", "M">>,
    <<"M">> }

StatusArgs == GoodStatusArgs \cup BadStatusArgs

\* The puts the model issues: every path and branch with every good
\* status, and one put for each bad status.
PutArgs ==
    (PathArgs \X BranchArgs \X GoodStatusArgs)
      \cup ({<<"a", "/">>} \X {<<"m">>} \X BadStatusArgs)

\* Path arguments that end in more than one separator, or in a separator
\* after a space, or that are a separator alone, and one that does not.
OddPathArgs == {
    <<"/">>,
    <<"a", "/", "/">>,
    <<"a", " ", "/">>,
    <<" ", "a", "/", " ">> }

PathPutArgs == OddPathArgs \X {<<"m">>} \X {<<"1", " ", "M">>}

\* The longest segment of the enumerated raw statuses.
MaxSegLen == 3

SegAlphabet == {"0", "1", "2", "M", "?", " "}

RECURSIVE StringsOfLen(_)
StringsOfLen(n) ==
    IF n = 0 THEN {<<>>}
    ELSE {s \o <<c>> : s \in StringsOfLen(n - 1), c \in SegAlphabet}

\* Every segment of at most MaxSegLen characters, the empty one included.
SegArgs == UNION {StringsOfLen(n) : n \in 0..MaxSegLen}

\* Segments that are put in front of another one.
FirstSegArgs == {
    <<"1", " ", "M">>,
    <<"3", " ", "M">>,
    <<"1", " ", "?", "?">> }

\* Raw statuses of one segment, of two, and some longer ones.
RawArgs ==
    SegArgs
      \cup {f \o <<"|">> \o s : f \in FirstSegArgs, s \in SegArgs}
      \cup { <<"3", " ", "M", "|", "1", " ", "?", "?">>,
              <<"1", " ", "M", " ", "X">>,
              <<"1", " ", "M", "|", "2", " ", "M", "|", "3", " ", "M">>,
              <<"2", " ", "M", "|", "1", " ", "?", "|", "1", " ", "M">> }

\* ------------------------------------------------------------------ state

NoCommand ==
    [proc |-> None, op |-> "none", path |-> <<>>, branch |-> <<>>,
     git_status |-> <<>>, result |-> "none", lines |-> <<>>, records |-> <<>>]

\* The state in which the processes of P have been started on an empty
\* database.
InitWith(P) ==
    /\ disk = [k \in {} |-> <<>>]
    /\ holder = None
    /\ unavailable \in BOOLEAN
    /\ pc = [p \in Procs |-> IF p \in P THEN "new" ELSE "off"]
    /\ attempts = [p \in Procs |-> 0]
    /\ opens = [p \in Procs |-> 0]
    /\ last = NoCommand
    /\ written = [k \in {} |-> 0]
    /\ unacked = {}
    /\ runs = Cardinality(P)

\* One invocation at a time: p1 is invoked again and again, p2 is never
\* started.
Init == InitWith({"p1"})

\* A Database::new that gives up at the first failure of sled::open.
DatabaseNewErrNoRetry(p) ==
    /\ pc[p] = "new"
    /\ unavailable \/ holder # None
    /\ opens' = [opens EXCEPT ![p] = @ + 1]
    /\ attempts' = [attempts EXCEPT ![p] = @ + 1]
    /\ pc' = [pc EXCEPT ![p] = "openerr"]
    /\ UNCHANGED <<disk, holder, unavailable, last, written, unacked, runs>>

\* Database::new, one turn of the loop in which sled::open fails: the
\* directory is unavailable or another process holds the lock.
DatabaseNewErr(p) ==
    /\ pc[p] = "new"
    /\ unavailable \/ holder # None
    /\ opens' = [opens EXCEPT ![p] = @ + 1]
    /\ attempts' = [attempts EXCEPT ![p] = @ + 1]
    /\ pc' = [pc EXCEPT ![p] = IF attempts[p] + 1 > MaxAttempts THEN "openerr" ELSE "new"]
    /\ UNCHANGED <<disk, holder, unavailable, last, written, unacked, runs>>

\* Database::new, the turn in which sled::open succeeds and takes the lock.
DatabaseNewOk(p) ==
    /\ pc[p] = "new"
    /\ ~unavailable /\ holder = None
    /\ opens' = [opens EXCEPT ![p] = @ + 1]
    /\ holder' = p
    /\ pc' = [pc EXCEPT ![p] = "cmd"]
    /\ UNCHANGED <<disk, unavailable, attempts, last, written, unacked, runs>>

\* The end of main: the database is dropped and the process is gone.
Exit(p) ==
    /\ holder' = None
    /\ pc' = [pc EXCEPT ![p] = "exit"]
    /\ attempts' = [attempts EXCEPT ![p] = 0]
    /\ opens' = [opens EXCEPT ![p] = 0]
    /\ UNCHANGED <<unavailable, runs>>

\* What the history keeps of a successful put of `status`.
Written(status) ==
    LET k   == status.path
        old == IF k \in DOMAIN written THEN written[k]
               ELSE [n |-> 0, branch |-> <<>>, git_status |-> EmptyMap, dropped |-> FALSE]
        new == [n |-> old.n + 1,
                branch |-> status.branch,
                git_status |-> status.git_status,
                dropped |-> DOMAIN old.git_status \ DOMAIN status.git_status # {}]
    IN  [x \in DOMAIN written \cup {k} |-> IF x = k THEN new ELSE written[x]]

\* What Status::new makes of each put the model issues (lines 129-135),
\* computed once.
NewStatus ==
    [a \in PutArgs \cup PathPutArgs |->
        StatusNew(PutPath(a[1]), Trim(a[2]), Trim(a[3]))]

\* Commands::Put.
Put(p, path, branch, git_status) ==
    /\ pc[p] = "cmd"
    /\ LET r == NewStatus[<<path, branch, git_status>>]
           cmd(result) ==
               [proc |-> p, op |-> "put", path |-> path, branch |-> branch,
                git_status |-> git_status, result |-> result,
                lines |-> <<>>, records |-> <<>>]
       IN  IF r.panic
           THEN /\ last' = cmd("panic")
                /\ UNCHANGED <<disk, written, unacked>>
           ELSE \E order \in Orders(DOMAIN r.status.git_status), io \in IoOutcomes :
                  LET u == Update(disk, r.status, order, io)
                  IN  /\ disk' = u.db
                      /\ last' = cmd(u.result)
                      /\ written' = IF u.result = "ok" THEN Written(r.status) ELSE written
                      /\ unacked' = IF u.result = "ok" THEN unacked \ {r.status.path}
                                    ELSE unacked \cup {r.status.path}
    /\ Exit(p)

\* Commands::Get.
Get(p, path) ==
    /\ pc[p] = "cmd"
    /\ LET g == GetCommand(disk, path)
       IN  last' = [proc |-> p, op |-> "get", path |-> path, branch |-> <<>>,
                    git_status |-> <<>>, result |-> g.result, lines |-> g.lines,
                    records |-> <<>>]
    /\ Exit(p)
    /\ UNCHANGED <<disk, written, unacked>>

\* Commands::List.
List(p) ==
    /\ pc[p] = "cmd"
    /\ LET l == ListCommand(disk)
       IN  last' = [proc |-> p, op |-> "list", path |-> <<>>, branch |-> <<>>,
                    git_status |-> <<>>, result |-> l.result, lines |-> <<>>,
                    records |-> l.records]
    /\ Exit(p)
    /\ UNCHANGED <<disk, written, unacked>>

\* The tool is invoked again.
Invoke(p) ==
    /\ pc[p] \in {"exit", "openerr"}
    /\ runs < MaxRuns
    /\ runs' = runs + 1
    /\ pc' = [pc EXCEPT ![p] = "new"]
    /\ attempts' = [attempts EXCEPT ![p] = 0]
    /\ opens' = [opens EXCEPT ![p] = 0]
    /\ UNCHANGED <<disk, holder, unavailable, last, written, unacked>>

Next ==
    \E p \in Procs :
        \/ DatabaseNewErr(p)
        \/ DatabaseNewOk(p)
        \/ \E a \in PutArgs : Put(p, a[1], a[2], a[3])
        \/ \E path \in PathArgs : Get(p, path)
        \/ List(p)
        \/ Invoke(p)

Spec == Init /\ [][Next]_vars

\* The tool invoked with the path arguments of OddPathArgs.
NextPaths ==
    \E p \in Procs :
        \/ DatabaseNewErr(p)
        \/ DatabaseNewOk(p)
        \/ \E a \in PathPutArgs : Put(p, a[1], a[2], a[3])
        \/ \E path \in OddPathArgs : Get(p, path)
        \/ List(p)
        \/ Invoke(p)

SpecPaths == Init /\ [][NextPaths]_vars

\* -------------------------------------------------------------------- race

\* The puts of two invocations that run at once: two spellings of one
\* path with different branches and statuses, and another path.
RacePutArgs == {
    <<<<"a">>, <<"m">>, <<"1", " ", "M">>>>,
    <<<<"a", "/">>, <<" ", "n">>, <<"2", " ", "M", "|", "1", " ", "?">>>>,
    <<<<"b">>, <<"m">>, <<"1", " ", "M">>>> }

\* Both processes have been started on an empty database.
InitRace == InitWith(Procs)

NextRace ==
    \E p \in Procs :
        \/ DatabaseNewErr(p)
        \/ DatabaseNewOk(p)
        \/ \E a \in RacePutArgs : Put(p, a[1], a[2], a[3])
        \/ Get(p, <<"a">>)
        \/ List(p)
        \/ Invoke(p)

SpecRace == InitRace /\ [][NextRace]_vars

\* ------------------------------------------------------------------- codec

\* A raw status is given; no process runs.
InitCodec ==
    /\ disk = [k \in {} |-> <<>>]
    /\ holder = None
    /\ unavailable = FALSE
    /\ pc = [p \in Procs |-> "off"]
    /\ attempts = [p \in Procs |-> 0]
    /\ opens = [p \in Procs |-> 0]
    /\ \E raw \in RawArgs : last = [NoCommand EXCEPT !.op = "raw", !.git_status = raw]
    /\ written = [k \in {} |-> 0]
    /\ unacked = {}
    /\ runs = 0

\* Status::new applied to the raw status (lines 56-69).
StatusNewStep ==
    /\ last.op = "raw"
    /\ LET r == StatusNew(<<>>, <<>>, last.git_status)
       IN  last' = [last EXCEPT !.op = "decode",
                                !.result = IF r.panic THEN "panic" ELSE "ok",
                                !.records = IF r.panic THEN <<>> ELSE <<r.status>>]
    /\ UNCHANGED <<disk, holder, unavailable, pc, attempts, opens, written, unacked, runs>>

\* The status line of get made from the map (lines 141-149).
StatusLineStep ==
    /\ last.op = "decode"
    /\ last.result = "ok"
    /\ last' = [last EXCEPT !.op = "encode",
                            !.lines = <<StatusLine(last.records[1].git_status)>>]
    /\ UNCHANGED <<disk, holder, unavailable, pc, attempts, opens, written, unacked, runs>>

NextCodec == StatusNewStep \/ StatusLineStep

SpecCodec == InitCodec /\ [][NextCodec]_vars

\* ------------------------------------------------------------------ claims

\* A step in which a process runs its command to the end.
CommandStep == \E p \in Procs : pc[p] = "cmd" /\ pc'[p] = "exit"

\* canonicalize of the specification: trim, then strip one trailing
\* separator.  It is what put applies to its path.
Canonical(path) == PutPath(path)

\* decode of the specification, as Status::new computes it.
Decode(raw) == StatusNew(<<>>, <<>>, raw)

\* The record the history holds for canonical path k.
WrittenStatus(k) ==
    [path |-> k, branch |-> written[k].branch, git_status |-> written[k].git_status]

\* The two lines get prints for a record.
LinesOf(status) == <<Trim(status.branch), StatusLine(status.git_status)>>

\* C1: a get of a path whose canonical key is not in the store succeeds and
\* prints an empty branch line and an empty status line.
C1_GetAbsentIsEmpty ==
    (last.op = "get" /\ SerializeStr(Canonical(last.path)) \notin DOMAIN disk)
        => (last.result = "ok" /\ last.lines = << <<>>, <<>> >>)

\* C2: a get that directly follows a successful put under the other
\* spelling of the same canonical path succeeds and prints what was put.
C2_OtherSpellingSameRecord ==
    [][ ( /\ CommandStep
          /\ last.op = "put" /\ last.result = "ok"
          /\ last'.op = "get"
          /\ last'.path # last.path
          /\ Canonical(last'.path) = Canonical(last.path) )
        => ( /\ last'.result = "ok"
             /\ last'.lines =
                  <<Trim(last.branch),
                    StatusLine(Decode(Trim(last.git_status)).status.git_status)>> )
      ]_vars

\* C3: a get that directly follows a successful put with the same path
\* argument succeeds and prints the trimmed branch and the decoded status
\* of that put.
C3_PutThenGetSamePath ==
    [][ ( /\ CommandStep
          /\ last.op = "put" /\ last.result = "ok"
          /\ last'.op = "get"
          /\ last'.path = last.path )
        => ( /\ last'.result = "ok"
             /\ last'.lines =
                  <<Trim(last.branch),
                    StatusLine(Decode(Trim(last.git_status)).status.git_status)>> )
      ]_vars

\* C4: after two or more successful puts to a canonical path, the last one
\* not followed by a failed put to it, a get of that canonical path prints
\* the branch and the counts of the last put only, and the stored record
\* holds the codes of the last put and no other.
C4_SecondPutOverwrites ==
    ( /\ last.op = "get"
      /\ last.path \in DOMAIN written
      /\ last.path \notin unacked
      /\ written[last.path].n >= 2 )
    => ( /\ last.result = "ok"
         /\ last.lines = LinesOf(WrittenStatus(last.path))
         /\ DbGet(disk, last.path).ok
         /\ DbGet(disk, last.path).status = WrittenStatus(last.path) )

\* Reached: a get after a second put that left out a code of the first.
C4_Witness ==
    /\ last.op = "get" /\ last.result = "ok"
    /\ last.path \in DOMAIN written
    /\ last.path \notin unacked
    /\ written[last.path].n >= 2
    /\ written[last.path].dropped

\* C5: a Database::new that gives up has called sled::open exactly
\* MaxAttempts times.
C5_GivesUpAfterMaxAttempts ==
    \A p \in Procs : pc[p] = "openerr" => opens[p] = MaxAttempts

\* A non-empty segment without a space, or whose text before the first
\* space is no unsigned decimal number.
MalformedSegment(s) ==
    \/ \A i \in 1..Len(s) : s[i] # " "
    \/ LET sp == CHOOSE i \in 1..Len(s) :
                    s[i] = " " /\ \A j \in 1..(i - 1) : s[j] # " "
           count == SubSeq(s, 1, sp - 1)
       IN  count = <<>> \/ \E i \in 1..Len(count) : ~IsDigit(count[i])

HasMalformedSegment(raw) ==
    \E i \in 1..Len(Split(raw, "|")) :
        Split(raw, "|")[i] # <<>> /\ MalformedSegment(Split(raw, "|")[i])

\* C6: a put whose raw status has a malformed segment ends with an error
\* result, not with a panic.
C6_MalformedIsError ==
    (last.op = "put" /\ HasMalformedSegment(Trim(last.git_status)))
        => last.result = "err"

\* C7: the status line a get prints decodes to the mapping of the record
\* it was printed from.
C7_DecodeOfEncode ==
    (last.op = "get" /\ last.result = "ok")
        => ( /\ ~Decode(last.lines[2]).panic
             /\ Decode(last.lines[2]).status.git_status
                  = DbGet(disk, last.path).status.git_status )

\* C8: a put that does not succeed leaves every record of the store as it
\* was.
C8_FailedPutChangesNothing ==
    [][ (CommandStep /\ last'.op = "put" /\ last'.result # "ok")
        => disk' = disk ]_vars

\* C9: a put that has reported success has its record in the store, and
\* every record in the store is the record of a put that reported success.
C9_OnlyFlushedObservable ==
    /\ (last.op = "put" /\ last.result = "ok")
          => ( /\ DbGet(disk, Canonical(last.path)).ok
               /\ DbGet(disk, Canonical(last.path)).status
                    = WrittenStatus(Canonical(last.path)) )
    /\ \A key \in DOMAIN disk :
          \E k \in DOMAIN written :
              /\ key = SerializeStr(k)
              /\ DeserializeStatus(disk[key]).ok
              /\ DeserializeStatus(disk[key]).status = WrittenStatus(k)

\* C10: with no put having failed in flush since the last success on its
\* path, list prints exactly one record for every canonical path that was
\* put, holding the values of the most recent put, and nothing else.
C10_ListOnePerPath ==
    (last.op = "list" /\ unacked = {})
        => ( /\ last.result = "ok"
             /\ Len(last.records) = Cardinality(DOMAIN written)
             /\ {last.records[i] : i \in 1..Len(last.records)}
                  = {WrittenStatus(k) : k \in DOMAIN written} )

\* Reached: a list after puts on two distinct paths, two lines.
C10_Witness ==
    /\ last.op = "list" /\ last.result = "ok"
    /\ unacked = {}
    /\ Cardinality(DOMAIN written) = 2
    /\ Len(last.records) = 2

\* C11: no step removes a key; a step that is not a command, a get and a
\* list leave the store as it was; a put leaves the record of every key
\* but the one of its own canonical path as it was.
C11_OnlyOwnPutChanges ==
    [][ /\ DOMAIN disk \subseteq DOMAIN disk'
        /\ ~CommandStep => disk' = disk
        /\ (CommandStep /\ last'.op \in {"get", "list"}) => disk' = disk
        /\ (CommandStep /\ last'.op = "put")
              => \A key \in DOMAIN disk :
                    key # SerializeStr(Canonical(last'.path))
                        => disk'[key] = disk[key]
      ]_vars

\* Reached: a successful put into a store that held another key.
C11_Witness ==
    /\ last.op = "put" /\ last.result = "ok"
    /\ \E key \in DOMAIN disk : key # SerializeStr(Canonical(last.path))

\* C18: every entry's key is the serialization of the path field of the
\* record its value deserializes to, and every path list prints is, once
\* serialized, a key of the store.
C18_KeyIsSerializedPath ==
    /\ \A key \in DOMAIN disk :
          /\ DeserializeStatus(disk[key]).ok
          /\ key = SerializeStr(DeserializeStatus(disk[key]).status.path)
    /\ last.op = "list"
          => /\ Len(last.records) = Cardinality(DOMAIN disk)
             /\ \A i \in 1..Len(last.records) :
                   SerializeStr(last.records[i].path) \in DOMAIN disk

\* Reached: a list of a store of two entries.
C18_Witness ==
    /\ last.op = "list" /\ last.result = "ok"
    /\ Cardinality(DOMAIN disk) = 2
    /\ Len(last.records) = 2

\* C12: every stored record's path is non-empty, neither starts nor ends
\* with whitespace, and does not end with the path separator.
C12_StoredPathsCanonical ==
    \A key \in DOMAIN disk :
        LET d == DeserializeStatus(disk[key])
            s == d.status.path
        IN  d.ok => /\ s # <<>>
                    /\ ~IsWhitespace(s[1])
                    /\ ~IsWhitespace(s[Len(s)])
                    /\ s[Len(s)] # "/"

\* Byte-wise lexicographic order, stated on the bytes.
BytesLess(a, b) ==
    \E k \in 1..Len(b) :
        /\ \A i \in 1..(k - 1) : i <= Len(a) /\ Byte(a[i]) = Byte(b[i])
        /\ k > Len(a) \/ Byte(a[k]) < Byte(b[k])

\* "<count> <code> "
Rendered(m, c) == FormatU64(m[c]) \o <<" ">> \o c \o <<" ">>

\* The strings of ss with "| " between consecutive ones.
RECURSIVE Joined(_)
Joined(ss) ==
    IF ss = <<>> THEN <<>>
    ELSE IF Len(ss) = 1 THEN ss[1]
    ELSE ss[1] \o <<"|", " ">> \o Joined(Tail(ss))

\* C13: the status line made from a map is its entries in ascending
\* byte-wise order of code, each rendered "<count> <code> ", joined by
\* "| ", nothing after the last; the empty map gives the empty line.
C13_StatusLineIsEncoding ==
    last.op = "encode" =>
        LET m == last.records[1].git_status
        IN  /\ \E o \in Orders(DOMAIN m) :
                  /\ \A i \in 1..(Len(o) - 1) : BytesLess(o[i], o[i + 1])
                  /\ last.lines[1] = Joined([i \in 1..Len(o) |-> Rendered(m, o[i])])
            /\ m = EmptyMap => last.lines[1] = <<>>

\* Reached: {M:3, ??:1} encoded as "1 ?? | 3 M ".
C13_Witness ==
    /\ last.op = "encode"
    /\ last.records[1].git_status = (<<"M">> :> 3) @@ (<<"?", "?">> :> 1)
    /\ last.lines[1] = <<"1", " ", "?", "?", " ", "|", " ", "3", " ", "M", " ">>

\* The segment is "<count> <code>": decimal digits, one space, and a
\* non-empty code without a space.
WellFormedSegment(s) ==
    \E k \in 2..(Len(s) - 1) :
        /\ \A i \in 1..(k - 1) : IsDigit(s[i])
        /\ s[k] = " "
        /\ \A i \in (k + 1)..Len(s) : s[i] # " "

\* C16: a raw status that decode accepts has only well-formed segments.
C16_AcceptsOnlyWellFormed ==
    (last.op = "decode" /\ last.result = "ok") =>
        \A i \in 1..Len(Segments(last.git_status)) :
            WellFormedSegment(Segments(last.git_status)[i])

\* C17: the decoded map has each code of the raw status once, with the
\* count of the last segment of that code.
C17_LastSegmentWins ==
    (last.op = "decode" /\ last.result = "ok") =>
        LET segs == Segments(last.git_status)
            m    == last.records[1].git_status
            code(i)  == Parts(segs[i])[2]
            count(i) == ParseU64(Parts(segs[i])[1]).val
        IN  /\ DOMAIN m = {code(i) : i \in 1..Len(segs)}
            /\ \A i \in 1..Len(segs) :
                  (\A j \in (i + 1)..Len(segs) : code(j) # code(i))
                      => m[code(i)] = count(i)

\* Reached: "1 M|2 M" decoded to {M:2}.
C17_Witness ==
    /\ last.op = "decode" /\ last.result = "ok"
    /\ last.git_status = <<"1", " ", "M", "|", "2", " ", "M">>
    /\ last.records[1].git_status = (<<"M">> :> 2)

\* C14: a Database::new that has failed fewer than MaxAttempts times does
\* not give up; when the store can be opened at its next attempt, that
\* attempt, the one after its k failures, returns the store to it; and a
\* process that has the store calls sled::open no more.
C14_OpenToleratesTransientFailure ==
    [][ \A p \in Procs :
          /\ (pc[p] = "new" /\ pc'[p] = "openerr")
                => attempts[p] >= MaxAttempts
          /\ ( /\ pc[p] = "new" /\ opens'[p] = opens[p] + 1
               /\ attempts[p] < MaxAttempts
               /\ ~unavailable /\ holder = None )
                => ( /\ pc'[p] = "cmd"
                     /\ holder' = p
                     /\ opens'[p] = attempts[p] + 1
                     /\ attempts'[p] = attempts[p] )
          /\ pc[p] = "cmd" => opens'[p] <= opens[p]
      ]_vars

\* Reached: a process has the store after sled::open failed for it more
\* than once, the other process having held the lock.
C14_Witness ==
    \E p \in Procs :
        /\ pc[p] = "cmd" /\ holder = p
        /\ attempts[p] >= 2 /\ attempts[p] < MaxAttempts
        /\ opens[p] = attempts[p] + 1

\* C15: a process runs its command only while it holds the store, and the
\* store holds, for every path, the record of the last put to it that
\* succeeded, and nothing else.
C15_SerialisedByOpen ==
    /\ \A p \in Procs : pc[p] = "cmd" => holder = p
    /\ DOMAIN disk = {SerializeStr(k) : k \in DOMAIN written}
    /\ \A k \in DOMAIN written :
          /\ SerializeStr(k) \in DOMAIN disk
          /\ DeserializeStatus(disk[SerializeStr(k)]).ok
          /\ DeserializeStatus(disk[SerializeStr(k)]).status = WrittenStatus(k)

===========================================================================
